---- MODULE Spec2Model ----
(***************************************************************************)
(* aggregate_stock_data.py: aggregate_for_symbol as a state machine.       *)
(*                                                                         *)
(* One invocation is a straight-line pipeline                              *)
(*   load -> prices -> calendar -> news -> group -> combine -> makedirs    *)
(*        -> open -> write ... -> close                                    *)
(* and every statement that can raise ends the invocation in "failed".     *)
(* The output path is shared by the invocations, so the file and its       *)
(* directory are global state; everything else is local to an invocation.  *)
(*                                                                         *)
(* Encodings.  A calendar date is its day number in January 2023.  A time  *)
(* of day is a number of seconds; an instant is day * 86400 + seconds.     *)
(* A number cell is held in tenths (95 is 9.5).  Formatted text            *)
(* (strftime) is the tuple of its digits, compared as text is compared.    *)
(***************************************************************************)
EXTENDS Integers, Sequences, FiniteSets, TLC

\* ---------------------------------------------------------------- bounds
MaxDay == 4
MaxPriceRows == 3
MaxNewsRows == 2
MaxRuns == 2

\* ------------------------------------------------------- missing values
\* pandas' NaT (errors='coerce') and NaN (an empty cell, a reindexed gap)
NaT == -1
NaN == -1

Procs == {1, 2}

\* ------------------------------------------------------ generic helpers
Range(s) == {s[i] : i \in 1..Len(s)}

SeqsUpTo(S, n) == UNION {[1..k -> S] : k \in 0..n}

\* text comparison of two digit tuples of the same length
RECURSIVE LexLess(_, _)
LexLess(a, b) ==
  IF a = <<>> \/ b = <<>> THEN Len(a) < Len(b)
  ELSE IF Head(a) # Head(b) THEN Head(a) < Head(b)
  ELSE LexLess(Tail(a), Tail(b))

\* ------------------------------------------------------------- prices
\* pd.to_datetime(price_df['date'], format='%Y-%m-%d', errors='coerce')
ParsePriceDate(raw) == IF raw.fmt = "iso" THEN raw.day ELSE NaT

\* line 29 applied to the whole column
PricesParsed(rows) ==
  [i \in 1..Len(rows) |-> [rows[i] EXCEPT !.date = ParsePriceDate(rows[i].date)]]

\* sort key order of sort_values('date'): NaT sorts last
DateLeq(a, b) ==
  IF b = NaT THEN TRUE ELSE IF a = NaT THEN FALSE ELSE a <= b

RECURSIVE InsertByDate(_, _)
InsertByDate(sorted, r) ==
  IF sorted = <<>> THEN <<r>>
  ELSE IF DateLeq(Head(sorted).date, r.date)
       THEN <<Head(sorted)>> \o InsertByDate(Tail(sorted), r)
       ELSE <<r>> \o sorted

RECURSIVE SortByDate(_)
SortByDate(rows) ==
  IF rows = <<>> THEN <<>>
  ELSE InsertByDate(SortByDate(SubSeq(rows, 1, Len(rows) - 1)), rows[Len(rows)])

\* price_df['date'].min() / .max(): NaT is skipped, NaT when nothing is left
ValidDates(df) == {df[i].date : i \in 1..Len(df)} \ {NaT}
DateMin(df) ==
  IF ValidDates(df) = {} THEN NaT
  ELSE CHOOSE d \in ValidDates(df) : \A e \in ValidDates(df) : d <= e
DateMax(df) ==
  IF ValidDates(df) = {} THEN NaT
  ELSE CHOOSE d \in ValidDates(df) : \A e \in ValidDates(df) : d >= e

\* a date_range that takes NaT for a bound instead of raising
DateRangeNeverRaises(start, end) == FALSE

\* a date_range that leaves the end out (inclusive='left')
DateRangeOpenEnd(start, end) == [i \in 1..(end - start) |-> start + i - 1]

\* pd.date_range(start, end, freq='D') raises on NaT
DateRangeRaises(start, end) == start = NaT \/ end = NaT
DateRange(start, end) == [i \in 1..(end - start + 1) |-> start + i - 1]

\* .reindex(full_range) raises when the index holds a label twice
HasDuplicateLabels(df) ==
  \E i, j \in 1..Len(df) : i # j /\ df[i].date = df[j].date

EmptyCells == [high |-> NaN, low |-> NaN, close |-> NaN, volume |-> NaN]
Cells(r) == [high |-> r.high, low |-> r.low, close |-> r.close, volume |-> r.volume]

\* set_index('date').reindex(full_range): the row of that label, or NaN cells
Reindex(df, range) ==
  [k \in 1..Len(range) |->
     IF \E i \in 1..Len(df) : df[i].date = range[k]
     THEN Cells(df[CHOOSE i \in 1..Len(df) : df[i].date = range[k]])
     ELSE EmptyCells]

\* .ffill(): per column, a NaN takes the last earlier value that is not NaN
FillCell(prev, cur) == IF cur = NaN THEN prev ELSE cur

\* .bfill() in place of .ffill(): a NaN takes the next later value
RECURSIVE BFill(_)
BFill(cells) ==
  IF Len(cells) <= 1 THEN cells
  ELSE LET rest == BFill(Tail(cells))
           next == rest[1]
           cur  == cells[1]
       IN  <<[high   |-> FillCell(next.high, cur.high),
              low    |-> FillCell(next.low, cur.low),
              close  |-> FillCell(next.close, cur.close),
              volume |-> FillCell(next.volume, cur.volume)]>> \o rest

RECURSIVE FFill(_)
FFill(cells) ==
  IF Len(cells) <= 1 THEN cells
  ELSE LET init == FFill(SubSeq(cells, 1, Len(cells) - 1))
           prev == init[Len(init)]
           cur  == cells[Len(cells)]
       IN  Append(init, [high   |-> FillCell(prev.high, cur.high),
                         low    |-> FillCell(prev.low, cur.low),
                         close  |-> FillCell(prev.close, cur.close),
                         volume |-> FillCell(prev.volume, cur.volume)])

\* lines 34-40: price_daily, one row per label of full_range
PriceDaily(df, range) ==
  LET filled == FFill(Reindex(df, range))
  IN  [k \in 1..Len(range) |->
         [date |-> range[k], high |-> filled[k].high, low |-> filled[k].low,
          close |-> filled[k].close, volume |-> filled[k].volume]]

\* date_obj.strftime('%Y-%m-%d'): year, month and day, zero padded
DateStr(d) == <<2, 0, 2, 3, 0, 1, d \div 10, d % 10>>

\* float(x): the same value, NaN included
ToFloat(x) == x
\* int(x) raises on NaN and drops the fraction otherwise
IntRaises(x) == x = NaN
ToInt(x) == (x \div 10) * 10

\* ------------------------------------------------------------ headlines
\* the zone of the text ignored: its date and time read as UTC
ToUTCNaive(raw) == raw.day * 86400 + raw.sec

\* the moment a timestamp text names, in UTC (utc=True): its local date and
\* time less its zone's offset
ToUTC(raw) == raw.day * 86400 + raw.sec - raw.tz * 3600

\* pd.to_datetime(..., format='%Y-%m-%d %H:%M:%S %Z', errors='coerce', utc=True)
ParsePrimary(raw) == IF raw.fmt = "primary" THEN ToUTC(raw) ELSE NaT

\* pd.to_datetime(..., utc=True, errors='coerce'), the parse without a format
ParseGeneric(raw) == IF raw.fmt \in {"primary", "generic"} THEN ToUTC(raw) ELSE NaT

\* the primary parse alone, lines 44-46 left out
ParseNoFallback(raw) == ParsePrimary(raw)

\* lines 43-47: the primary parse, and the fallback where it gave NaT
ParseWithFallback(raw) ==
  LET parsed == ParsePrimary(raw)
  IN  IF parsed = NaT THEN ParseGeneric(raw) ELSE parsed

\* .dt.date
DateOnly(instant) == instant \div 86400

\* .dt.strftime('%H:%M:%S'): two digits each
TimeStr(instant) ==
  LET s  == instant % 86400
      hh == s \div 3600
      mm == (s % 3600) \div 60
      ss == s % 60
  IN  <<hh \div 10, hh % 10, mm \div 10, mm % 10, ss \div 10, ss % 10>>

\* lines 43-54 without the sort: the rows that parsed, split into date and time
RECURSIVE NewsNormalized(_)
NewsNormalized(rows) ==
  IF rows = <<>> THEN <<>>
  ELSE LET init == NewsNormalized(SubSeq(rows, 1, Len(rows) - 1))
           r    == rows[Len(rows)]
           t    == ParseWithFallback(r.Date)
       IN  IF t = NaT THEN init
           ELSE Append(init, [date_only |-> DateOnly(t), time_str |-> TimeStr(t),
                              Article_title |-> r.Article_title])

\* the order of sort_values('date_only')
NewsLeqDateOnly(a, b) == a.date_only <= b.date_only

\* the order of sort_values(['date_only', 'time_str'])
NewsLeq(a, b) ==
  \/ a.date_only < b.date_only
  \/ a.date_only = b.date_only /\ ~LexLess(b.time_str, a.time_str)

\* a stable sort: rows with equal keys keep their order
RECURSIVE InsertNews(_, _)
InsertNews(sorted, r) ==
  IF sorted = <<>> THEN <<r>>
  ELSE IF NewsLeq(Head(sorted), r)
       THEN <<Head(sorted)>> \o InsertNews(Tail(sorted), r)
       ELSE <<r>> \o sorted

RECURSIVE SortNews(_)
SortNews(rows) ==
  IF rows = <<>> THEN <<>>
  ELSE InsertNews(SortNews(SubSeq(rows, 1, Len(rows) - 1)), rows[Len(rows)])

\* lines 58-62: date -> the list of {time, headline} of that date, in row order
GroupItem(r) == [time |-> r.time_str, headline |-> r.Article_title]

RECURSIVE GroupOf(_, _)
GroupOf(rows, d) ==
  IF rows = <<>> THEN <<>>
  ELSE IF Head(rows).date_only = d
       THEN <<GroupItem(Head(rows))>> \o GroupOf(Tail(rows), d)
       ELSE GroupOf(Tail(rows), d)

NewsByDate(rows) ==
  [d \in {rows[i].date_only : i \in 1..Len(rows)} |-> GroupOf(rows, d)]

\* a lookup by a key of another type than the dictionary's (the date text,
\* say): it never finds the date
DictGetMiss(dict, key) == <<>>

\* news_by_date.get(date_key, [])
DictGet(dict, key) == IF key \in DOMAIN dict THEN dict[key] ELSE <<>>

\* -------------------------------------------------------------- combine
\* lines 74-83: the record of one row of price_daily
DayRecord(row, dict) ==
  [date |-> DateStr(row.date),
   market_data |-> [high |-> ToFloat(row.high), low |-> ToFloat(row.low),
                    close |-> ToFloat(row.close), volume |-> ToInt(row.volume)],
   news_headlines |-> DictGet(dict, row.date)]

\* --------------------------------------------------------------- output
\* json.dump({"history": history}, f, indent=2) as the pieces written, in order
Piece(kind, recs) == [kind |-> kind, recs |-> recs]
Dump(hist) ==
  <<Piece("open", <<>>)>> \o [i \in 1..Len(hist) |-> Piece("day", <<hist[i]>>)]
                         \o <<Piece("close", <<>>)>>

\* open(out_json, 'a') in place of 'w': the old content stays, writes go after it
OpenFileAppend(old) == [content |-> old, pos |-> Len(old)]

\* open(out_json, 'w'): the file exists and is empty, the position is 0
OpenFile(old) == [content |-> <<>>, pos |-> 0]

\* a write of a file opened with O_APPEND: always at the end of the file
WriteAtEnd(content, pos, piece) == Append(content, piece)

\* f.write at a position: overwrite, append, or leave a hole of zero bytes
WriteAt(content, pos, piece) ==
  LET n == IF pos + 1 > Len(content) THEN pos + 1 ELSE Len(content)
  IN  [i \in 1..n |->
         IF i = pos + 1 THEN piece
         ELSE IF i <= Len(content) THEN content[i]
         ELSE Piece("nul", <<>>)]

\* os.makedirs(out_dir, exist_ok=True) under "if out_dir"
MakeDirsResult(d) == IF d = "absent" THEN "present" ELSE d

\* ---------------------------------------------------------------- state
VARIABLES
  price_csv,       \* per invocation: the price table at price_csv
  news_csv,        \* per invocation: the headline table at news_csv
  pc,              \* per invocation: the statement it is at
  left,            \* per invocation: how many more times it may be started
  price_df,        \* locals of aggregate_for_symbol
  news_df,
  price_daily,
  news_by_date,
  history,
  pos,             \* the position of the open file object f
  raised,          \* the stage whose statement raised, "" when none did
  dir,             \* the output directory: "none" (a bare file name),
                   \* "absent" or "present"
  file,            \* the file at out_json: [exists, content]
  dir_at_invoke,   \* dir and file as they were when the invocation started
  file_at_invoke

vars == <<price_csv, news_csv, pc, left, price_df, news_df, price_daily,
          news_by_date, history, pos, raised, dir, file, dir_at_invoke,
          file_at_invoke>>

inputs == <<price_csv, news_csv>>
locals == <<price_df, news_df, price_daily, news_by_date, history, pos>>
disk   == <<dir, file>>
ghosts == <<dir_at_invoke, file_at_invoke>>

\* ------------------------------------------------------- input domains
Q1 == [high |-> 100, low |-> 90, close |-> 95, volume |-> 1000]
Q2 == [high |-> 120, low |-> 110, close |-> 115, volume |-> 2000]
\* a row whose volume cell is empty
Q3 == [high |-> 130, low |-> 125, close |-> 128, volume |-> NaN]
Quotes == {Q1, Q2, Q3}

PriceRow(dt, q) ==
  [date |-> dt, high |-> q.high, low |-> q.low, close |-> q.close, volume |-> q.volume]

\* a row for each day (its date as YYYY-MM-DD) and quote, and one row whose date
\* is text in another layout
PriceRows ==
  {PriceRow([fmt |-> "iso", day |-> d], q) : d \in 1..MaxDay, q \in Quotes}
    \cup {PriceRow([fmt |-> "other", day |-> 1], Q1)}

Table(status, rows) == [status |-> status, rows |-> rows]

PriceTables ==
  {Table("ok", rows) : rows \in SeqsUpTo(PriceRows, MaxPriceRows)}
    \cup {Table(st, <<>>) : st \in {"unreadable", "no_date", "no_column"}}

\* a timestamp text: its layout ("primary": YYYY-MM-DD HH:MM:SS <zone name>,
\* "generic": another layout the parse without a format reads, "bad": neither),
\* and the local day, second of the day and zone offset in hours it names
Stamp(fmt, day, sec, tz) == [fmt |-> fmt, day |-> day, sec |-> sec, tz |-> tz]

\* 04:30:00 UTC, 23:30:00 UTC, 23:30:00 EST
Clocks == {<<16200, 0>>, <<84600, 0>>, <<84600, -5>>}
Titles == {"t1", "t2"}

NewsRow(st, title) == [Date |-> st, Article_title |-> title]

NewsRows ==
  {NewsRow(Stamp("primary", d, c[1], c[2]), "t1") : d \in 1..MaxDay, c \in Clocks}
    \cup {NewsRow(Stamp("primary", d, 16200, 0), t) : d \in 1..MaxDay, t \in Titles}
    \cup {NewsRow(Stamp("generic", 2, c[1], c[2]), "t1") : c \in {<<16200, 0>>, <<84600, -5>>}}
    \cup {NewsRow(Stamp("bad", 1, 0, 0), "t1")}

NewsTables ==
  {Table("ok", rows) : rows \in SeqsUpTo(NewsRows, MaxNewsRows)}
    \cup {Table(st, <<>>) : st \in {"unreadable", "no_date", "no_column"}}

NoFile == [exists |-> FALSE, content |-> <<>>]
OldFile == [exists |-> TRUE, content |-> <<Piece("old", <<>>)>>]
Disks == {<<"none", NoFile>>, <<"none", OldFile>>, <<"absent", NoFile>>,
          <<"present", NoFile>>, <<"present", OldFile>>}

\* ----------------------------------------------------------------- init
\* every invocation on the same tables, or each on tables of its own
Same(T) == {[p \in Procs |-> t] : t \in T}
Each(T) == [Procs -> T]

InitWith(P, N, D, started, n) ==
  /\ price_csv \in P
  /\ news_csv \in N
  /\ pc = [p \in Procs |-> IF p \in started THEN "idle" ELSE "off"]
  /\ left = [p \in Procs |-> n]
  /\ price_df = [p \in Procs |-> <<>>]
  /\ news_df = [p \in Procs |-> <<>>]
  /\ price_daily = [p \in Procs |-> <<>>]
  /\ news_by_date = [p \in Procs |-> <<>>]
  /\ history = [p \in Procs |-> <<>>]
  /\ pos = [p \in Procs |-> 0]
  /\ raised = [p \in Procs |-> ""]
  /\ \E d \in D : dir = d[1] /\ file = d[2]
  /\ dir_at_invoke = [p \in Procs |-> dir]
  /\ file_at_invoke = [p \in Procs |-> file]

\* -------------------------------------------------------------- actions
Fail(p, stage) ==
  /\ pc' = [pc EXCEPT ![p] = "failed"]
  /\ raised' = [raised EXCEPT ![p] = stage]

Goto(p, next) ==
  /\ pc' = [pc EXCEPT ![p] = next]
  /\ UNCHANGED raised

\* the command line starts aggregate_for_symbol (lines 99-107, 19-22)
Invoke(p) ==
  /\ pc[p] \in {"idle", "done", "failed"}
  /\ left[p] > 0
  /\ left' = [left EXCEPT ![p] = @ - 1]
  /\ pc' = [pc EXCEPT ![p] = "load"]
  /\ raised' = [raised EXCEPT ![p] = ""]
  /\ price_df' = [price_df EXCEPT ![p] = <<>>]
  /\ news_df' = [news_df EXCEPT ![p] = <<>>]
  /\ price_daily' = [price_daily EXCEPT ![p] = <<>>]
  /\ news_by_date' = [news_by_date EXCEPT ![p] = <<>>]
  /\ history' = [history EXCEPT ![p] = <<>>]
  /\ pos' = [pos EXCEPT ![p] = 0]
  /\ dir_at_invoke' = [dir_at_invoke EXCEPT ![p] = dir]
  /\ file_at_invoke' = [file_at_invoke EXCEPT ![p] = file]
  /\ UNCHANGED <<inputs, disk>>

\* the output directory made before the tables are read
LoadMakingDirs(p) ==
  /\ pc[p] = "load"
  /\ IF price_csv[p].status = "unreadable" \/ news_csv[p].status = "unreadable"
     THEN Fail(p, "load") /\ UNCHANGED <<price_df, news_df>>
     ELSE /\ Goto(p, "prices")
          /\ price_df' = [price_df EXCEPT ![p] = price_csv[p].rows]
          /\ news_df' = [news_df EXCEPT ![p] = news_csv[p].rows]
  /\ dir' = MakeDirsResult(dir)
  /\ UNCHANGED <<inputs, left, price_daily, news_by_date, history, pos, file, ghosts>>

\* lines 25-26: pd.read_csv of both tables
Load(p) ==
  /\ pc[p] = "load"
  /\ IF price_csv[p].status = "unreadable" \/ news_csv[p].status = "unreadable"
     THEN Fail(p, "load") /\ UNCHANGED <<price_df, news_df>>
     ELSE /\ Goto(p, "prices")
          /\ price_df' = [price_df EXCEPT ![p] = price_csv[p].rows]
          /\ news_df' = [news_df EXCEPT ![p] = news_csv[p].rows]
  /\ UNCHANGED <<inputs, left, price_daily, news_by_date, history, pos, disk, ghosts>>

\* lines 29-30: parse the dates, sort, keep the five columns
Prices(p) ==
  /\ pc[p] = "prices"
  /\ IF price_csv[p].status # "ok"
     THEN Fail(p, "prices") /\ UNCHANGED price_df
     ELSE /\ Goto(p, "calendar")
          /\ price_df' = [price_df EXCEPT ![p] = SortByDate(PricesParsed(price_df[p]))]
  /\ UNCHANGED <<inputs, left, news_df, price_daily, news_by_date, history, pos,
                 disk, ghosts>>

\* lines 33-40: the calendar, reindexed and forward filled
Calendar(p) ==
  /\ pc[p] = "calendar"
  /\ IF \/ DateRangeRaises(DateMin(price_df[p]), DateMax(price_df[p]))
        \/ HasDuplicateLabels(price_df[p])
     THEN Fail(p, "calendar") /\ UNCHANGED price_daily
     ELSE /\ Goto(p, "news")
          /\ price_daily' =
               [price_daily EXCEPT ![p] =
                  PriceDaily(price_df[p],
                             DateRange(DateMin(price_df[p]), DateMax(price_df[p])))]
  /\ UNCHANGED <<inputs, left, price_df, news_df, news_by_date, history, pos,
                 disk, ghosts>>

\* lines 43-56: parse with fallback, drop, split into date and time, sort
News(p) ==
  /\ pc[p] = "news"
  /\ IF news_csv[p].status # "ok"
     THEN Fail(p, "news") /\ UNCHANGED news_df
     ELSE /\ Goto(p, "group")
          /\ news_df' = [news_df EXCEPT ![p] = SortNews(NewsNormalized(news_df[p]))]
  /\ UNCHANGED <<inputs, left, price_df, price_daily, news_by_date, history, pos,
                 disk, ghosts>>

\* lines 58-62
Group(p) ==
  /\ pc[p] = "group"
  /\ Goto(p, "combine")
  /\ news_by_date' = [news_by_date EXCEPT ![p] = NewsByDate(news_df[p])]
  /\ UNCHANGED <<inputs, left, price_df, news_df, price_daily, history, pos,
                 disk, ghosts>>

\* lines 65-83: one turn of the loop over price_daily, or its end
Combine(p) ==
  /\ pc[p] = "combine"
  /\ LET i == Len(history[p]) + 1
     IN  IF i > Len(price_daily[p])
         THEN Goto(p, "makedirs") /\ UNCHANGED history
         ELSE IF IntRaises(price_daily[p][i].volume)
         THEN Fail(p, "combine") /\ UNCHANGED history
         ELSE /\ Goto(p, "combine")
              /\ history' = [history EXCEPT ![p] =
                    Append(@, DayRecord(price_daily[p][i], news_by_date[p]))]
  /\ UNCHANGED <<inputs, left, price_df, news_df, price_daily, news_by_date, pos,
                 disk, ghosts>>

\* lines 86-88
MakeDirs(p) ==
  /\ pc[p] = "makedirs"
  /\ Goto(p, "open")
  /\ dir' = MakeDirsResult(dir)
  /\ UNCHANGED <<inputs, left, locals, file, ghosts>>

\* line 90: open(out_json, 'w')
Open(p) ==
  /\ pc[p] = "open"
  /\ Goto(p, "write")
  /\ file' = [exists |-> TRUE, content |-> OpenFile(file.content).content]
  /\ pos' = [pos EXCEPT ![p] = OpenFile(file.content).pos]
  /\ UNCHANGED <<inputs, left, price_df, news_df, price_daily, news_by_date, history,
                 dir, ghosts>>

\* line 91: json.dump writes the next piece at f's position.  The buffer of f
\* may hand several pieces to the file in one write; the file then passes
\* through fewer of these states and ends in the same ones.
Write(p) ==
  /\ pc[p] = "write"
  /\ pos[p] < Len(Dump(history[p]))
  /\ Goto(p, "write")
  /\ file' = [file EXCEPT !.content = WriteAt(@, pos[p], Dump(history[p])[pos[p] + 1])]
  /\ pos' = [pos EXCEPT ![p] = @ + 1]
  /\ UNCHANGED <<inputs, left, price_df, news_df, price_daily, news_by_date, history,
                 dir, ghosts>>

\* line 91, the end of the with block: f is closed and the function returns
Close(p) ==
  /\ pc[p] = "write"
  /\ pos[p] = Len(Dump(history[p]))
  /\ Goto(p, "done")
  /\ UNCHANGED <<inputs, left, locals, disk, ghosts>>

Step(p) ==
  \/ Invoke(p)
  \/ Load(p)
  \/ Prices(p)
  \/ Calendar(p)
  \/ News(p)
  \/ Group(p)
  \/ Combine(p)
  \/ MakeDirs(p)
  \/ Open(p)
  \/ Write(p)
  \/ Close(p)

Next == \E p \in Procs : Step(p)

\* ------------------------------------------------------- specifications
\* a headline table with one row, 2023-01-02 23:30:00 EST
OneHeadline ==
  Table("ok", <<NewsRow(Stamp("primary", 2, 84600, -5), "t1")>>)

\* price tables: days 2 and 3; day 1 and the last day; no row at all
PriceTwoDays ==
  Table("ok", <<PriceRow([fmt |-> "iso", day |-> 3], Q2),
                PriceRow([fmt |-> "iso", day |-> 2], Q1)>>)
PriceEnds ==
  Table("ok", <<PriceRow([fmt |-> "iso", day |-> 1], Q1),
                PriceRow([fmt |-> "iso", day |-> MaxDay], Q2)>>)
PriceNone == Table("ok", <<>>)
\* the first day's volume cell is empty
PriceBlankVolume ==
  Table("ok", <<PriceRow([fmt |-> "iso", day |-> 1], Q3),
                PriceRow([fmt |-> "iso", day |-> 2], Q1)>>)

\* every price table, one invocation
InitPrice == InitWith(Same(PriceTables), Same({OneHeadline}), {<<"absent", NoFile>>}, {1}, 1)
SpecPrice == InitPrice /\ [][Next]_vars

\* every headline table, one invocation
InitNews ==
  InitWith(Same({PriceTwoDays, PriceNone}), Same(NewsTables), {<<"absent", NoFile>>}, {1}, 1)
SpecNews == InitNews /\ [][Next]_vars

\* every state of the output path, the invocation repeated on the same inputs
Init ==
  InitWith(Same({PriceTwoDays, PriceEnds, PriceNone, PriceBlankVolume,
                 Table("unreadable", <<>>), Table("no_column", <<>>)}),
           Same({OneHeadline, Table("ok", <<>>), Table("unreadable", <<>>),
                 Table("no_date", <<>>), Table("no_column", <<>>)}),
           Disks, {1}, MaxRuns)
Spec == Init /\ [][Next]_vars

\* two invocations on the same output path at once
InitConc ==
  InitWith(Each({PriceTwoDays, PriceEnds}), Same({Table("ok", <<>>)}),
           {<<"absent", NoFile>>, <<"present", OldFile>>}, Procs, 1)
SpecConc == InitConc /\ [][Next]_vars

\* =============================================================== claims
\* What the claims speak of, read off the input tables themselves.
AfterCombine == {"makedirs", "open", "write", "done"}

\* the days the price rows name in YYYY-MM-DD, and the first and last of them
RowDays(p) ==
  {price_csv[p].rows[i].date.day :
     i \in {j \in 1..Len(price_csv[p].rows) : price_csv[p].rows[j].date.fmt = "iso"}}
FirstDay(p) == CHOOSE d \in RowDays(p) : \A e \in RowDays(p) : d <= e
LastDay(p) == CHOOSE d \in RowDays(p) : \A e \in RowDays(p) : d >= e

\* the price row of day d
RowOf(p, d) ==
  price_csv[p].rows[CHOOSE i \in 1..Len(price_csv[p].rows) :
                      /\ price_csv[p].rows[i].date.fmt = "iso"
                      /\ price_csv[p].rows[i].date.day = d]

\* the text "2023-01-dd" as its digits
IsoText(d) == <<2, 0, 2, 3, 0, 1, d \div 10, d % 10>>

\* a valid price input: the table with its columns, at least one row, every
\* date in YYYY-MM-DD, no date twice, every cell a number
ValidPriceInput(p) ==
  LET rows == price_csv[p].rows
  IN  /\ price_csv[p].status = "ok"
      /\ rows # <<>>
      /\ \A i \in 1..Len(rows) :
           /\ rows[i].date.fmt = "iso"
           /\ NaN \notin {rows[i].high, rows[i].low, rows[i].close, rows[i].volume}
      /\ \A i, j \in 1..Len(rows) : i # j => rows[i].date.day # rows[j].date.day

\* C1 (calendar completeness): once the history of an invocation is built it
\* holds exactly one record per calendar day from the first to the last day
\* the price rows name, in ascending order; the file written holds these
\* records and no other; and a valid price input always gets that far.
C1_CalendarComplete ==
  \A p \in Procs :
    /\ pc[p] \in AfterCombine =>
         /\ RowDays(p) # {}
         /\ Len(history[p]) = LastDay(p) - FirstDay(p) + 1
         /\ \A k \in 1..Len(history[p]) : history[p][k].date = IsoText(FirstDay(p) + k - 1)
         /\ \A k \in 1..(Len(history[p]) - 1) :
              LexLess(history[p][k].date, history[p][k + 1].date)
    /\ pc[p] = "done" =>
         /\ Len(file.content) = Len(history[p]) + 2
         /\ \A k \in 1..Len(history[p]) : file.content[k + 1].recs = <<history[p][k]>>
    /\ ValidPriceInput(p) => pc[p] # "failed"

\* C1 witness: rows out of order and with a gap between them, written out
C1_Witness ==
  /\ pc[1] = "done"
  /\ ValidPriceInput(1)
  /\ Len(price_csv[1].rows) = 2
  /\ price_csv[1].rows[1].date.day > price_csv[1].rows[2].date.day + 1
  /\ Len(history[1]) >= 3

\* C2 (forward fill): a calendar day without a price row is emitted with the
\* market data emitted for the latest earlier day that has a row; a day with
\* a row is emitted with every value its row holds.
C2_ForwardFill ==
  \A p \in Procs :
    pc[p] \in AfterCombine =>
      \A k \in 1..Len(history[p]) :
        LET d == FirstDay(p) + k - 1
        IN  IF d \in RowDays(p)
            THEN LET r == RowOf(p, d)
                     m == history[p][k].market_data
                 IN  /\ r.high # NaN => m.high = r.high
                     /\ r.low # NaN => m.low = r.low
                     /\ r.close # NaN => m.close = r.close
                     /\ r.volume # NaN => m.volume = r.volume
            ELSE LET e == CHOOSE x \in RowDays(p) :
                            x < d /\ \A y \in RowDays(p) : y < d => y <= x
                 IN  history[p][k].market_data
                       = history[p][e - FirstDay(p) + 1].market_data

\* C2 witness: rows on days 1 and 2 with different data, none on day 3, one on
\* day 4: day 3 carries the data of day 2
C2_Witness ==
  /\ pc[1] = "done"
  /\ RowDays(1) = {1, 2, 4}
  /\ Len(history[1]) = 4
  /\ history[1][1].market_data = Q1
  /\ history[1][2].market_data = Q2
  /\ history[1][3].market_data = Q2

\* C9 (empty price range is fatal): with no price row whose date parses, the
\* invocation raises at the calendar; it builds no history, writes nothing
\* and never returns.
C9_EmptyRangeFatal ==
  \A p \in Procs :
    (price_csv[p].status = "ok" /\ RowDays(p) = {}) =>
      /\ pc[p] \notin {"news", "group", "combine"} \cup AfterCombine
      /\ pc[p] = "failed" => raised[p] = "calendar"
      /\ history[p] = <<>>
      /\ file = file_at_invoke[p] /\ dir = dir_at_invoke[p]

\* C9 witness: a table whose only dates do not parse, failed at the calendar
C9_Witness ==
  /\ price_csv[1].status = "ok"
  /\ Len(price_csv[1].rows) >= 1
  /\ RowDays(1) = {}
  /\ pc[1] = "failed"
  /\ raised[1] = "calendar"

\* the headline rows whose timestamp parses, by the primary format or the fallback
Surviving(p) ==
  {i \in 1..Len(news_csv[p].rows) : news_csv[p].rows[i].Date.fmt \in {"primary", "generic"}}

\* the UTC instant of a headline row in seconds, its UTC day, its UTC time as HH:MM:SS
UtcSecs(r) == (r.Date.day * 24 + (- r.Date.tz)) * 3600 + r.Date.sec
UtcDay(r) == UtcSecs(r) \div (24 * 3600)
ClockText(r) ==
  LET s == UtcSecs(r) % (24 * 3600)
      h == s \div 3600
      m == (s \div 60) % 60
  IN  <<h \div 10, h % 10, m \div 10, m % 10, (s % 60) \div 10, s % 10>>
ItemOf(r) == [time |-> ClockText(r), headline |-> r.Article_title]

\* HH:MM:SS as a number of seconds
ClockSecs(t) ==
  (t[1] * 10 + t[2]) * 3600 + (t[3] * 10 + t[4]) * 60 + t[5] * 10 + t[6]

Count(seq, x) == Cardinality({j \in 1..Len(seq) : seq[j] = x})

\* how many surviving headline rows have UTC day d and item x
CountRows(p, d, x) ==
  Cardinality({i \in Surviving(p) :
                 UtcDay(news_csv[p].rows[i]) = d /\ ItemOf(news_csv[p].rows[i]) = x})

Items(p) == {ItemOf(news_csv[p].rows[i]) : i \in Surviving(p)}

\* C3 as amended (headline bucketing): the record of a calendar day holds the
\* surviving headlines of that UTC day, each as often as the headline table
\* holds it, and nothing else; a headline whose UTC day has no record is in
\* no record.
C3_BucketingInRange ==
  \A p \in Procs :
    \A k \in 1..Len(history[p]) :
      /\ \A x \in Items(p) :
           Count(history[p][k].news_headlines, x) = CountRows(p, FirstDay(p) + k - 1, x)
      /\ Range(history[p][k].news_headlines) \subseteq Items(p)

\* C3 as stated: every surviving headline is in the record of its UTC day,
\* whatever the price dates and the headline dates are.
C3_EveryHeadlineEmitted ==
  \A p \in Procs :
    pc[p] \in AfterCombine =>
      \A i \in Surviving(p) :
        LET r == news_csv[p].rows[i]
        IN  \E k \in 1..Len(history[p]) :
              /\ history[p][k].date = IsoText(UtcDay(r))
              /\ Count(history[p][k].news_headlines, ItemOf(r))
                   = CountRows(p, UtcDay(r), ItemOf(r))

\* C3 witness: two surviving headlines of two calendar days, each in its record
C3_Witness ==
  /\ pc[1] = "done"
  /\ Surviving(1) = {1, 2}
  /\ UtcDay(news_csv[1].rows[1]) = 3
  /\ UtcDay(news_csv[1].rows[2]) = 2
  /\ Len(history[1]) = 2
  /\ history[1][1].news_headlines = <<ItemOf(news_csv[1].rows[2])>>
  /\ history[1][2].news_headlines = <<ItemOf(news_csv[1].rows[1])>>

\* C4 (timestamp fallback): after the parse the headline rows are those whose
\* timestamp parsed under the primary format or under the fallback, each as
\* often as the table holds it; the rows that failed both are gone, and a row
\* that fails does not make the invocation raise.
C4_TimestampFallback ==
  \A p \in Procs :
    /\ news_csv[p].status = "ok" => raised[p] # "news"
    /\ pc[p] \in {"group", "combine"} \cup AfterCombine =>
         /\ Len(news_df[p]) = Cardinality(Surviving(p))
         /\ \A i \in Surviving(p) :
              LET r == news_csv[p].rows[i]
                  y == [date_only |-> UtcDay(r), time_str |-> ClockText(r),
                        Article_title |-> r.Article_title]
              IN  Count(news_df[p], y)
                    = Cardinality({j \in Surviving(p) :
                         /\ UtcDay(news_csv[p].rows[j]) = UtcDay(r)
                         /\ ItemOf(news_csv[p].rows[j]) = ItemOf(r)})

\* C4 witness: one row that only the fallback parses and one that nothing
\* parses; the first is kept, the second dropped, the invocation returns
C4_Witness ==
  /\ pc[1] = "done"
  /\ Len(news_csv[1].rows) = 2
  /\ news_csv[1].rows[1].Date.fmt = "bad"
  /\ news_csv[1].rows[2].Date.fmt = "generic"
  /\ Len(news_df[1]) = 1
  /\ news_df[1][1].Article_title = news_csv[1].rows[2].Article_title

\* C5 (UTC bucket key): a headline whose timestamp names a zone other than
\* UTC is grouped under the date and time of day of the same instant in UTC,
\* and emitted so when that date is a calendar day; 2023-01-02 23:30:00 EST
\* is under 2023-01-03 with time 04:30:00.
C5_UtcBucketKey ==
  \A p \in Procs :
    \A i \in Surviving(p) :
      LET r == news_csv[p].rows[i]
      IN  r.Date.tz # 0 =>
            /\ pc[p] \in {"combine"} \cup AfterCombine =>
                 /\ UtcDay(r) \in DOMAIN news_by_date[p]
                 /\ ItemOf(r) \in Range(news_by_date[p][UtcDay(r)])
                 /\ (r.Date.day = 2 /\ r.Date.sec = 23 * 3600 + 30 * 60 /\ r.Date.tz = -5) =>
                      [time |-> <<0, 4, 3, 0, 0, 0>>, headline |-> r.Article_title]
                        \in Range(news_by_date[p][3])
            /\ (pc[p] \in AfterCombine /\ UtcDay(r) \in FirstDay(p)..LastDay(p)) =>
                 LET rec == history[p][UtcDay(r) - FirstDay(p) + 1]
                 IN  rec.date = IsoText(UtcDay(r)) /\ ItemOf(r) \in Range(rec.news_headlines)

\* C5 witness: 2023-01-02 23:30:00 EST written out under 2023-01-03, 04:30:00
C5_Witness ==
  /\ pc[1] = "done"
  /\ news_csv[1].rows = <<NewsRow(Stamp("primary", 2, 84600, -5), "t1")>>
  /\ Len(history[1]) = 2
  /\ history[1][1].news_headlines = <<>>
  /\ history[1][2].date = <<2, 0, 2, 3, 0, 1, 0, 3>>
  /\ history[1][2].news_headlines = <<[time |-> <<0, 4, 3, 0, 0, 0>>, headline |-> "t1"]>>

\* C6 (headline ordering): in every record the headlines are in ascending
\* order of their time of day.
C6_HeadlinesOrdered ==
  \A p \in Procs :
    \A k \in 1..Len(history[p]) :
      LET h == history[p][k].news_headlines
      IN  \A i, j \in 1..Len(h) : i < j => ClockSecs(h[i].time) <= ClockSecs(h[j].time)

\* C6 witness: two headlines of one day, the later one first in the table,
\* emitted the earlier one first
C6_Witness ==
  /\ pc[1] = "done"
  /\ Surviving(1) = {1, 2}
  /\ UtcDay(news_csv[1].rows[1]) = UtcDay(news_csv[1].rows[2])
  /\ UtcSecs(news_csv[1].rows[1]) > UtcSecs(news_csv[1].rows[2])
  /\ \E k \in 1..Len(history[1]) :
       history[1][k].news_headlines
         = <<ItemOf(news_csv[1].rows[2]), ItemOf(news_csv[1].rows[1])>>

\* the JSON document of a history, as the pieces of the file
Document(hist) ==
  <<[kind |-> "open", recs |-> <<>>]>>
    \o [k \in 1..Len(hist) |-> [kind |-> "day", recs |-> <<hist[k]>>]]
    \o <<[kind |-> "close", recs |-> <<>>]>>

BeforeOpen == {"load", "prices", "calendar", "news", "group", "combine", "makedirs"}

\* C7 (idempotence): when an invocation that follows an invocation on the
\* same inputs and output path returns, the file is what it was when this
\* invocation started, and it is the document of the history and nothing more.
C7_Idempotent ==
  \A p \in Procs :
    pc[p] = "done" =>
      /\ file.exists
      /\ file.content = Document(history[p])
      /\ left[p] <= MaxRuns - 2 => file = file_at_invoke[p]

\* C7 witness: the second invocation has returned, headlines included
C7_Witness ==
  /\ pc[1] = "done"
  /\ left[1] = MaxRuns - 2
  /\ news_csv[1] = OneHeadline
  /\ Len(file.content) >= 4
  /\ file_at_invoke[1].content = Document(history[1])

\* C10 (output untouched on failure): until an invocation opens the output,
\* and for good once it has raised, the output directory and the output file
\* are as they were when it started; every failure is one of the stages
\* before the output is opened.
C10_OutputUntouchedOnFailure ==
  \A p \in Procs :
    /\ pc[p] = "failed" => raised[p] \in {"load", "prices", "calendar", "news", "combine"}
    /\ pc[p] \in {"failed"} \cup (BeforeOpen \ {"makedirs"}) =>
         dir = dir_at_invoke[p] /\ file = file_at_invoke[p]
    /\ pc[p] = "makedirs" => file = file_at_invoke[p]

\* C10 witness: the conversion of an empty volume cell raised in the join, and
\* the old file and the missing directory are as before
C10_Witness ==
  /\ pc[1] = "failed"
  /\ raised[1] = "combine"
  /\ price_csv[1] = PriceBlankVolume
  /\ (file = OldFile \/ dir = "absent")

\* C8 as amended (concurrent writers): when two invocations on the same price
\* and headline tables and the same output path have both returned, the file
\* is the complete document, which is the same for both.
C8_SameInputsComplete ==
  (/\ pc[1] = "done" /\ pc[2] = "done"
   /\ price_csv[1] = price_csv[2] /\ news_csv[1] = news_csv[2]) =>
     /\ file.content = Document(history[1])
     /\ file.content = Document(history[2])

\* C8 as stated: when two invocations on the same output path have both
\* returned, the file is the complete document of one of them.
C8_LastWriterWins ==
  (pc[1] = "done" /\ pc[2] = "done") =>
    \/ file.content = Document(history[1])
    \/ file.content = Document(history[2])

\* C8 witness: both invocations, on the same tables, have returned
C8_Witness ==
  /\ pc[1] = "done" /\ pc[2] = "done"
  /\ price_csv[1] = price_csv[2]
  /\ Len(history[1]) >= 2
  /\ file.content = Document(history[2])

====
